---------------------------- MODULE Spec2Model ----------------------------
(***************************************************************************)
(* Model of file-tools/clean_identical_files.py.                           *)
(*                                                                         *)
(* A path is the sequence of the character codes of its string, so that    *)
(* sorted() (lexicographic order of str) and len() are computed, not       *)
(* assumed.  A file content is a sequence of bytes; its size is its length.*)
(* The filesystem is a function from the paths of a small universe to a    *)
(* content, or to Absent.                                                  *)
(***************************************************************************)
EXTENDS Integers, Sequences, FiniteSets, TLC

VARIABLES
    disk,                 \* path -> content of the file, or Absent
    target_exists,        \* the target directory exists on disk
    target_directory,     \* args.target_directory
    dry_run,              \* args.dry_run
    pc,                   \* "start" | "group" | "move" | "exit"
    map_of_files,         \* dict size -> set of paths, as a sequence in insertion order
    identical_photos,     \* dict size -> list of sets of paths, same order
    kidx,                 \* position of the for loop of group_all_identical_photos
    group_photos_copy,    \* working set of the while loop
    files_to_be_moved,    \* every path handed to move_file_list in this run
    num_files_duplicated, \* result of move_identical_files (None before)
    n_errors,             \* log.error lines written by move_file_list in this run
    summary,              \* the info line "There were N files duplicated." (None before)
    exit_code,            \* process exit status (None while running)
    runs,                 \* what earlier runs of the tool left: exit status, count, log
    vanished              \* files deleted by another process during the run

vars == <<disk, target_exists, target_directory, dry_run, pc, map_of_files,
          identical_photos, kidx, group_photos_copy, files_to_be_moved,
          num_files_duplicated, n_errors, summary, exit_code, runs, vanished>>

-----------------------------------------------------------------------------
(* Bounds of the model *)

\* runs of the tool in a row on the same tree
MaxRuns == 2
\* files of the scanned tree present before the first run
MaxFiles == 3
\* files another process may delete while the tool runs (EnvSpec only)
MaxVanish == 1

-----------------------------------------------------------------------------
(* Values *)

None == -1
Absent == <<-1>>

\* contents: X and Y have the same size and differ, E is the empty file
ContentX == <<1>>
ContentY == <<2>>
ContentE == <<>>
Contents == {ContentX, ContentY, ContentE}

\* "/"
Sep == <<47>>
\* "s", the scanned directory; "s/x" a subdirectory of it
directory == <<115>>
SubDir == <<115, 47, 120>>
\* "d", a target outside the scanned tree; "s/d", a target inside it; and the
\* scanned directory itself given as the target
TargetOutside == <<100>>
TargetInside == <<115, 47, 100>>
Targets == {TargetOutside, TargetInside, directory}

\* "a.jpg", "a_c.jpg", "b.jpg", "a.png"
NameA == <<97, 46, 106, 112, 103>>
NameAC == <<97, 95, 99, 46, 106, 112, 103>>
NameB == <<98, 46, 106, 112, 103>>
NamePng == <<97, 46, 112, 110, 103>>
Names == {NameA, NameAC, NameB, NamePng}

\* os.path.join(root, file)
Join(dir, name) == dir \o Sep \o name

\* files of the scanned tree that exist before the tool is ever run
SourcePaths == {Join(directory, NameA), Join(directory, NameAC),
                Join(directory, NameB), Join(SubDir, NameA),
                Join(directory, NamePng)}
AllPaths == SourcePaths \cup {Join(t, n) : t \in Targets, n \in Names}

-----------------------------------------------------------------------------
(* Strings and the filesystem *)

\* str.endswith
EndsWith(s, suffix) ==
    /\ Len(s) >= Len(suffix)
    /\ SubSeq(s, Len(s) - Len(suffix) + 1, Len(s)) = suffix

\* the path lies under dir (os.walk(dir) visits it)
Under(dir, p) ==
    /\ Len(p) > Len(dir) + 1
    /\ SubSeq(p, 1, Len(dir) + 1) = dir \o Sep

\* os.path.basename
Basename(p) ==
    LET slashes == {i \in 1..Len(p) : p[i] = 47}
        last == IF slashes = {} THEN 0
                ELSE CHOOSE i \in slashes : \A j \in slashes : j <= i
    IN SubSeq(p, last + 1, Len(p))

\* os.path.dirname
Dirname(p) == SubSeq(p, 1, Len(p) - Len(Basename(p)) - 1)

\* a < b for str: the first differing character decides, a proper prefix is smaller
LexLess(a, b) ==
    \E i \in 1..Len(b) :
        /\ \A j \in 1..(i - 1) : j <= Len(a) /\ a[j] = b[j]
        /\ (i > Len(a) \/ a[i] < b[i])

\* os.path.exists(f)
Exists(d, f) == d[f] # Absent

\* the extension allow-list of define_files_map
IsPhoto(p) ==
    \/ EndsWith(p, <<46, 97, 114, 119>>)
    \/ EndsWith(p, <<46, 110, 101, 102>>)
    \/ EndsWith(p, <<46, 106, 112, 103>>)
    \/ EndsWith(p, <<46, 116, 105, 102>>)

\* Path(entry).stat().st_size
FileSize(d, p) == Len(d[p])

-----------------------------------------------------------------------------
(* Inventory: define_files_map *)

\* the files os.walk(dir) yields that pass the extension filter
Walked(d, dir) == {p \in AllPaths : Exists(d, p) /\ Under(dir, p) /\ IsPhoto(p)}

\* base_names[fsize] after every walked file was added
Bucket(d, dir, fsize) == {p \in Walked(d, dir) : FileSize(d, p) = fsize}

BucketKeys(d, dir) == {FileSize(d, p) : p \in Walked(d, dir)}

\* keys that a file lying directly in dir has: os.walk is top-down, so these
\* keys are inserted before the keys only files of subdirectories have
RootKeys(d, dir) == {FileSize(d, p) : p \in {q \in Walked(d, dir) : Dirname(q) = dir}}

\* the insertion orders of the dict that some listing order of the directories gives
KeyOrders(d, dir) ==
    LET keys == BucketKeys(d, dir)
        n == Cardinality(keys)
    IN {ord \in [1..n -> keys] :
           /\ \A i, j \in 1..n : i # j => ord[i] # ord[j]
           /\ \A i, j \in 1..n :
                 (ord[i] \notin RootKeys(d, dir) /\ ord[j] \in RootKeys(d, dir)) => j < i}

\* the dict define_files_map returns, in insertion order ord
FilesMap(d, dir, ord) ==
    [i \in 1..Len(ord) |-> [k |-> ord[i], v |-> Bucket(d, dir, ord[i])]]

-----------------------------------------------------------------------------
(* Grouping: group_equal_files, group_all_identical_photos *)

\* filecmp.cmp raises when os.stat of either file fails
CmpRaises(d, f1, f2) == ~Exists(d, f1) \/ ~Exists(d, f2)

\* (mutant) filecmp.cmp with shallow=True semantics: the sizes alone decide
FilecmpCmpShallow(d, f1, f2) == Len(d[f1]) = Len(d[f2])

\* filecmp.cmp(f1, f2, shallow=False): sizes, then every byte
FilecmpCmp(d, f1, f2) ==
    /\ Len(d[f1]) = Len(d[f2])
    /\ \A i \in 1..Len(d[f1]) : d[f1][i] = d[f2][i]

\* group_equal_files with photo_selected = seed (the element set.pop() gave)
GroupEqualFiles(d, photo_set, seed) ==
    {seed} \cup {c \in photo_set \ {seed} : FilecmpCmp(d, seed, c)}

\* some filecmp.cmp call of group_equal_files raises
GroupEqualFilesRaises(d, photo_set, seed) ==
    \E c \in photo_set \ {seed} : CmpRaises(d, seed, c)

\* (mutant) only one path of the group leaves the working set
DifferenceUpdateOnePath(working, group) == working \ {CHOOSE x \in group : TRUE}

\* group_photos_copy.difference_update(group_of_identical_photos)
DifferenceUpdate(working, group) == working \ group

-----------------------------------------------------------------------------
(* Relocation: move_file_list, move_identical_files *)

\* sorted(identical_photos_set, reverse=True)
RECURSIVE SortedReverse(_)
SortedReverse(S) ==
    IF S = {} THEN <<>>
    ELSE LET m == CHOOSE x \in S : \A y \in S \ {x} : LexLess(y, x)
         IN <<m>> \o SortedReverse(S \ {m})

\* (mutant) nothing is popped
ExcludeNoImage(sorted) == sorted

\* exclude_one_image_to_not_delete_it: list.pop() drops the last element
ExcludeOneImage(sorted) == SubSeq(sorted, 1, Len(sorted) - 1)

\* shutil.move(f, destination) into an existing directory: the file goes to
\* destination/basename(f), and an existing path there makes it raise
RealDst(f, destination) == Join(destination, Basename(f))

ShutilMoveRaises(d, f, destination) == Exists(d, RealDst(f, destination))

\* (mutant) the file is copied and the source is left in place
ShutilCopy(d, f, destination) ==
    [d EXCEPT ![RealDst(f, destination)] = d[f]]

ShutilMove(d, f, destination) ==
    [d EXCEPT ![RealDst(f, destination)] = d[f], ![f] = Absent]

\* (mutant) num_files_moved is incremented after shutil.move returned
MoveOneFileCountAfter(acc, f, destination, dry) ==
    IF ~Exists(acc.disk, f) THEN acc
    ELSE IF dry THEN [acc EXCEPT !.n = acc.n + 1]
    ELSE IF ShutilMoveRaises(acc.disk, f, destination)
         THEN [acc EXCEPT !.errors = acc.errors + 1]
    ELSE [acc EXCEPT !.n = acc.n + 1,
                     !.disk = [acc.disk EXCEPT ![RealDst(f, destination)] = acc.disk[f],
                                               ![f] = Absent]]

\* one iteration of the loop of move_file_list; acc holds num_files_moved, the
\* filesystem and the error lines logged so far
MoveOneFile(acc, f, destination, dry) ==
    IF ~Exists(acc.disk, f) THEN acc
    ELSE IF dry THEN [acc EXCEPT !.n = acc.n + 1]
    ELSE IF ShutilMoveRaises(acc.disk, f, destination)
         THEN [acc EXCEPT !.n = acc.n + 1, !.errors = acc.errors + 1]
    ELSE [acc EXCEPT !.n = acc.n + 1, !.disk = ShutilMove(acc.disk, f, destination)]

RECURSIVE MoveFileList(_, _, _, _)
MoveFileList(files, destination, acc, dry) ==
    IF files = <<>> THEN acc
    ELSE MoveFileList(Tail(files), destination,
                      MoveOneFile(acc, Head(files), destination, dry), dry)

\* the paths of one group that are handed to move_file_list
Candidates(identical_photos_set) ==
    IF Cardinality(identical_photos_set) > 1
    THEN ExcludeOneImage(SortedReverse(identical_photos_set))
    ELSE <<>>

\* every group of the dict in iteration order
RECURSIVE AllGroups(_)
AllGroups(dict) ==
    IF dict = <<>> THEN <<>> ELSE Head(dict).v \o AllGroups(Tail(dict))

RECURSIVE MoveGroups(_, _, _, _)
MoveGroups(groups, destination, acc, dry) ==
    IF groups = <<>> THEN acc
    ELSE LET files == Candidates(Head(groups))
             handed == [acc EXCEPT !.handed = acc.handed \cup {files[i] : i \in 1..Len(files)}]
         IN MoveGroups(Tail(groups), destination,
                       MoveFileList(files, destination, handed, dry), dry)

\* move_identical_files after the target directory was made
MoveIdenticalFiles(dict, destination, dry, d) ==
    MoveGroups(AllGroups(dict), destination,
               [n |-> 0, disk |-> d, errors |-> 0, handed |-> {}], dry)

\* os.makedirs(target_directory) unless it exists: not guarded by dry_run
MakeTargetDirectory(exists, dry) == IF ~exists THEN TRUE ELSE exists

-----------------------------------------------------------------------------
(* The process: __main__ and clean_identical_files *)

\* clean_identical_files has no return statement
CleanIdenticalFilesResult(count) == None

\* sys.exit(arg): None is status 0, an int is the status
SysExit(arg) == IF arg = None THEN 0 ELSE arg

\* sys.exit(1) of the except branch
ExitOnException == 1

-----------------------------------------------------------------------------
(* Initial states *)

\* the photos of the scanned tree that may exist before the first run
SourcePhotos == {p \in SourcePaths : IsPhoto(p)}

\* a tree the tool may be started on: the photos of src that exist, an a.png
\* that no run ever looks at and, with held, an a.jpg already in the target
InitDisk(src, target, held) ==
    [p \in AllPaths |->
        IF p \in SourcePhotos THEN src[p]
        ELSE IF p \in SourcePaths THEN ContentX
        ELSE IF held /\ p = Join(target, NameA) THEN ContentX
        ELSE Absent]

Init ==
    /\ target_directory \in Targets
    /\ dry_run \in BOOLEAN
    /\ target_exists \in BOOLEAN
    /\ \E src \in [SourcePhotos -> Contents \cup {Absent}], held \in BOOLEAN :
          /\ Cardinality({p \in SourcePhotos : src[p] # Absent}) <= MaxFiles
          /\ held => target_exists
          /\ disk = InitDisk(src, target_directory, held)
    /\ pc = "start"
    /\ map_of_files = <<>>
    /\ identical_photos = <<>>
    /\ kidx = 0
    /\ group_photos_copy = {}
    /\ files_to_be_moved = {}
    /\ num_files_duplicated = None
    /\ n_errors = 0
    /\ summary = None
    /\ exit_code = None
    /\ runs = <<>>
    /\ vanished = 0

-----------------------------------------------------------------------------
(* Actions *)

\* clean_identical_files up to the first iteration of the for loop of
\* group_all_identical_photos
DefineFilesMap ==
    /\ pc = "start"
    /\ \E ord \in KeyOrders(disk, directory) :
          LET m == FilesMap(disk, directory, ord)
          IN /\ map_of_files' = m
             /\ IF m = <<>>
                THEN /\ pc' = "move"
                     /\ identical_photos' = <<>>
                     /\ kidx' = 0
                     /\ group_photos_copy' = {}
                ELSE /\ pc' = "group"
                     /\ identical_photos' = <<[k |-> m[1].k, v |-> <<>>]>>
                     /\ kidx' = 1
                     /\ group_photos_copy' = m[1].v
    /\ UNCHANGED <<disk, target_exists, target_directory, dry_run, files_to_be_moved,
                   num_files_duplicated, n_errors, summary, exit_code, runs, vanished>>

\* one iteration of the while loop of group_all_identical_photos; when it
\* empties the working set the for loop goes on to the next key.  An exception
\* of filecmp.cmp is caught only by __main__, which exits with status 1.
GroupStep ==
    /\ pc = "group"
    /\ \E seed \in group_photos_copy :
          IF GroupEqualFilesRaises(disk, group_photos_copy, seed)
          THEN /\ pc' = "exit"
               /\ exit_code' = ExitOnException
               /\ UNCHANGED <<identical_photos, kidx, group_photos_copy>>
          ELSE LET group == GroupEqualFiles(disk, group_photos_copy, seed)
                   rest == DifferenceUpdate(group_photos_copy, group)
                   emitted == [identical_photos EXCEPT
                                  ![kidx].v = Append(identical_photos[kidx].v, group)]
               IN /\ exit_code' = exit_code
                  /\ IF rest # {}
                     THEN /\ identical_photos' = emitted
                          /\ group_photos_copy' = rest
                          /\ UNCHANGED <<kidx, pc>>
                     ELSE IF kidx < Len(map_of_files)
                     THEN /\ identical_photos' =
                                Append(emitted, [k |-> map_of_files[kidx + 1].k, v |-> <<>>])
                          /\ group_photos_copy' = map_of_files[kidx + 1].v
                          /\ kidx' = kidx + 1
                          /\ pc' = pc
                     ELSE /\ identical_photos' = emitted
                          /\ group_photos_copy' = rest
                          /\ kidx' = kidx
                          /\ pc' = "move"
    /\ UNCHANGED <<disk, target_exists, target_directory, dry_run, map_of_files,
                   files_to_be_moved, num_files_duplicated, n_errors, summary,
                   runs, vanished>>

\* move_identical_files, the summary line, and sys.exit of what
\* clean_identical_files returned
MoveAndExit ==
    /\ pc = "move"
    /\ LET r == MoveIdenticalFiles(identical_photos, target_directory, dry_run, disk)
       IN /\ target_exists' = MakeTargetDirectory(target_exists, dry_run)
          /\ disk' = r.disk
          /\ files_to_be_moved' = r.handed
          /\ n_errors' = r.errors
          /\ num_files_duplicated' = r.n
          /\ summary' = r.n
          /\ exit_code' = SysExit(CleanIdenticalFilesResult(r.n))
    /\ pc' = "exit"
    /\ UNCHANGED <<target_directory, dry_run, map_of_files, identical_photos, kidx,
                   group_photos_copy, runs, vanished>>

\* the tool is started again with the same arguments
RunAgain ==
    /\ pc = "exit"
    /\ Len(runs) + 1 < MaxRuns
    /\ runs' = Append(runs, [exit_code |-> exit_code, summary |-> summary,
                             n_errors |-> n_errors])
    /\ pc' = "start"
    /\ map_of_files' = <<>>
    /\ identical_photos' = <<>>
    /\ kidx' = 0
    /\ group_photos_copy' = {}
    /\ files_to_be_moved' = {}
    /\ num_files_duplicated' = None
    /\ n_errors' = 0
    /\ summary' = None
    /\ exit_code' = None
    /\ UNCHANGED <<disk, target_exists, target_directory, dry_run, vanished>>

\* another process deletes a file of the scanned tree after it was listed
Vanish ==
    /\ pc \in {"group", "move"}
    /\ vanished < MaxVanish
    /\ \E p \in Walked(disk, directory) :
          disk' = [disk EXCEPT ![p] = Absent]
    /\ vanished' = vanished + 1
    /\ UNCHANGED <<target_exists, target_directory, dry_run, pc, map_of_files,
                   identical_photos, kidx, group_photos_copy, files_to_be_moved,
                   num_files_duplicated, n_errors, summary, exit_code, runs>>

Next == DefineFilesMap \/ GroupStep \/ MoveAndExit \/ RunAgain

\* the tool alone on the tree
Spec == Init /\ [][Next]_vars

NextEnv == DefineFilesMap \/ GroupStep \/ MoveAndExit \/ RunAgain \/ Vanish

\* the tool with another process deleting files under it
EnvSpec == Init /\ [][NextEnv]_vars

-----------------------------------------------------------------------------
(* Vocabulary of the properties *)

\* the run reached the summary line: no exception escaped clean_identical_files
Completed == pc = "exit" /\ summary # None

\* the groups emitted for the i-th key
GroupsOf(i) == {identical_photos[i].v[j] : j \in 1..Len(identical_photos[i].v)}

EmittedGroups == UNION {GroupsOf(i) : i \in 1..Len(identical_photos)}

\* the target directory is neither the scanned directory nor below it
TargetOutsideTree ==
    /\ target_directory # directory
    /\ ~Under(directory, target_directory)

\* no listed photo lies directly in the target directory
NoListedPathInTarget ==
    \A i \in 1..Len(map_of_files) :
        \A p \in map_of_files[i].v : Dirname(p) # target_directory

-----------------------------------------------------------------------------
(* C1 *)

\* C1: when group_all_identical_photos has returned, for every key and
\* whatever seeds set.pop() gave, two paths of the bucket are in the same
\* emitted group exactly when their contents are byte-identical.
C1_GroupsAreContentClasses ==
    pc = "move" =>
        \A i \in 1..Len(map_of_files) :
            \A p, q \in map_of_files[i].v :
                (\E g \in GroupsOf(i) : p \in g /\ q \in g) <=> (disk[p] = disk[q])

\* a bucket of three or more same-size files split into several groups, one of
\* them with two members
C1_Witness ==
    /\ pc = "move"
    /\ \E i \in 1..Len(map_of_files) :
          /\ Cardinality(map_of_files[i].v) >= 3
          /\ Cardinality(GroupsOf(i)) >= 2
          /\ \E g \in GroupsOf(i) : Cardinality(g) >= 2

-----------------------------------------------------------------------------
(* C2 *)

\* the list emitted for every finished key is a partition of the bucket, and
\* so is, for the key being worked on, the list so far with the working set
C2_Partition ==
    pc \in {"group", "move"} =>
        \A i \in 1..Len(identical_photos) :
            LET groups == identical_photos[i].v
                working == IF pc = "group" /\ i = kidx THEN group_photos_copy ELSE {}
            IN /\ identical_photos[i].k = map_of_files[i].k
               /\ \A j \in 1..Len(groups) : groups[j] # {}
               /\ \A j, l \in 1..Len(groups) : j # l => groups[j] \cap groups[l] = {}
               /\ \A j \in 1..Len(groups) : groups[j] \cap working = {}
               /\ UNION {groups[j] : j \in 1..Len(groups)} \cup working
                      = map_of_files[i].v

\* every iteration of the while loop shrinks the working set or finishes the key
C2_Shrinks ==
    (pc = "group" /\ pc' = "group") =>
        \/ kidx' = kidx /\ group_photos_copy' \subseteq group_photos_copy
                        /\ group_photos_copy' # group_photos_copy
        \/ kidx' = kidx + 1 /\ kidx' <= Len(map_of_files)

\* C2: for every key the emitted groups are non-empty, pairwise disjoint and
\* their union is the bucket; the while loop terminates, since each iteration
\* strictly shrinks the finite working set.
C2_PartitionAndTermination == []C2_Partition /\ [][C2_Shrinks]_vars

\* all keys done, one of them with several groups
C2_Witness ==
    /\ pc = "move"
    /\ Len(identical_photos) >= 2
    /\ \E i \in 1..Len(identical_photos) : Len(identical_photos[i].v) >= 2

-----------------------------------------------------------------------------
(* C3 *)

\* C3: in every group of two or more members the member move_identical_files
\* keeps in place (the one not handed to move_file_list) has the longest
\* filename of the group.
C3_LongestFilenameKept ==
    Completed =>
        \A g \in EmittedGroups :
            Cardinality(g) >= 2 =>
                \E kept \in g \ files_to_be_moved :
                    \A m \in g : Len(Basename(m)) <= Len(Basename(kept))

-----------------------------------------------------------------------------
(* C4 *)

\* C4: after move_identical_files no member of a group of size 1 was handed to
\* move_file_list, exactly n-1 members of a group of size n >= 2 were, and a
\* member that was not handed over still exists at its original path.
C4_OneMemberExcluded ==
    Completed =>
        \A g \in EmittedGroups :
            /\ Cardinality(g \cap files_to_be_moved) = Cardinality(g) - 1
            /\ \E kept \in g \ files_to_be_moved : Exists(disk, kept)

\* a real run that moved files out of a group and left a singleton alone
C4_Witness ==
    /\ Completed
    /\ ~dry_run
    /\ \E g \in EmittedGroups :
          Cardinality(g) >= 3 /\ \E m \in g : ~Exists(disk, m)
    /\ \E g \in EmittedGroups : Cardinality(g) = 1

-----------------------------------------------------------------------------
(* C5 *)

\* C5: a step of a dry run changes neither the files nor the directories on disk.
C5_DryRunNoMutation ==
    [][dry_run => (disk' = disk /\ target_exists' = target_exists)]_vars

-----------------------------------------------------------------------------
(* C6 *)

-----------------------------------------------------------------------------
(* C7 *)

\* the groups of this run are all singletons and, once it is over, it moved nothing
OnlySingletons ==
    /\ \A g \in EmittedGroups : Cardinality(g) = 1
    /\ Completed => num_files_duplicated = 0

-----------------------------------------------------------------------------
(* C8 *)

\* C8: the count a real move_identical_files returns is the number of files
\* that arrived in the target directory.
C8_CountIsFilesMoved ==
    [][(pc = "move" /\ pc' = "exit" /\ ~dry_run) =>
          num_files_duplicated' =
              Cardinality({p \in AllPaths : Exists(disk', p) /\ ~Exists(disk, p)})]_vars

-----------------------------------------------------------------------------
(* C9 *)

\* C9: a run never ends with status 1 without its summary, whatever vanishes
\* between the listing and the comparisons.
C9_ComparisonErrorTolerated ==
    pc = "exit" => (exit_code # ExitOnException /\ summary # None)

-----------------------------------------------------------------------------
(* C10 *)

\* C10: the exit status of a run that reached its end is the count
\* move_identical_files returned, and it is 1 when an exception escaped.
C10_ExitCodeIsCount ==
    pc = "exit" =>
        IF summary # None THEN exit_code = num_files_duplicated
        ELSE exit_code = ExitOnException

=============================================================================
